---- MODULE Spec2Model ----
(***************************************************************************)
(* Model of the product facades of the First Street Foundation API client: *)
(* firststreet/api/adaptation.py (class Adaptation) and                    *)
(* firststreet/api/probability.py (class Probability).                     *)
(*                                                                         *)
(* One top-level call is modelled per behaviour: Init is the state before  *)
(* the call, and each entry point is one action that runs the whole method *)
(* body: argument validation, the call_api invocation(s), the construction *)
(* of the product objects, the optional to_csv invocation and the return   *)
(* or the raise.  What the backend answers to a call_api invocation is an  *)
(* input of the action.  The invocations of call_api and of to_csv are     *)
(* logged, in order, in api_calls and csv_calls.                           *)
(***************************************************************************)
EXTENDS Integers, Sequences, FiniteSets

VARIABLES pc, method, search_item, location_type, csv, limit,
          api_calls, csv_calls, raised, returned, result

vars == <<pc, method, search_item, location_type, csv, limit,
          api_calls, csv_calls, raised, returned, result>>

---------------------------------------------------------------------------
(* Bounds of the model. *)

\* longest identifier list given to an entry point, longest backend response
MaxItems == 2

\* adaptation identifiers cross-referenced by summary records: 1..MaxAdaptId
MaxAdaptId == 2

\* longest "adaptation" list of one summary record
MaxAdaptLen == 1

\* the default of the limit parameter
DefaultLimit == 100

---------------------------------------------------------------------------
(* Python values. *)

\* an argument value with its Python type
StrValue(s) == [type |-> "str", str |-> s, int |-> 0]

IntValue(n) == [type |-> "int", str |-> "", int |-> n]

NoneValue == [type |-> "NoneType", str |-> "", int |-> 0]

\* Python truth value: "" , 0 and None are false
Truthy(v) ==
    CASE v.type = "str" -> v.str # ""
      [] v.type = "int" -> v.int # 0
      [] OTHER -> FALSE

\* isinstance(v, str)
IsInstanceStr(v) == v.type = "str"

\* a JSON number that may be null
NoneInt == [isNone |-> TRUE, val |-> 0]

SomeInt(i) == [isNone |-> FALSE, val |-> i]

\* a JSON array of numbers that may be null
NoneList == [isNone |-> TRUE, items |-> <<>>]

SomeList(s) == [isNone |-> FALSE, items |-> s]

\* truth value of a list-or-None: None and [] are false
TruthyList(l) == ~l.isNone /\ Len(l.items) > 0

\* the sequences over S of length 0..n
SeqUpTo(S, n) == UNION {[1..k -> S] : k \in 0..n}

\* the elements of a sequence
Range(s) == {s[i] : i \in 1..Len(s)}

---------------------------------------------------------------------------
(* Inputs of an entry point. *)

\* identifier lists: the FSIDs 1..n in order (the empty list included)
SearchItems == {[i \in 1..n |-> i] : n \in 0..MaxItems}

\* location_type arguments: empty and non-empty strings, integers, None
LocationTypes == {StrValue(""), StrValue("property"), StrValue("city"),
                  IntValue(0), IntValue(190), NoneValue}

\* limit arguments: the default
Limits == {DefaultLimit}

---------------------------------------------------------------------------
(* Raw records, product objects, call_api and to_csv.  These live in       *)
(* firststreet/models, firststreet/api/api.py and                          *)
(* firststreet/api/csv_format.py; they are modelled from their contracts.  *)

\* the JSON object of one identifier; a key that is absent reads as null
RawRecord(fsid, adaptationId, adaptation) ==
    [fsid |-> fsid, adaptationId |-> adaptationId, adaptation |-> adaptation]

\* the typed product objects: each keeps the fields of its raw record
AdaptationDetail(api_data) ==
    [class |-> "AdaptationDetail", adaptationId |-> api_data.adaptationId]

AdaptationSummary(api_data) ==
    [class |-> "AdaptationSummary", fsid |-> api_data.fsid,
     adaptation |-> api_data.adaptation]

ProbabilityChance(api_data) ==
    [class |-> "ProbabilityChance", fsid |-> api_data.fsid]

ProbabilityCount(api_data) ==
    [class |-> "ProbabilityCount", fsid |-> api_data.fsid]

ProbabilityCountSummary(api_data) ==
    [class |-> "ProbabilityCountSummary", fsid |-> api_data.fsid]

ProbabilityCumulative(api_data) ==
    [class |-> "ProbabilityCumulative", fsid |-> api_data.fsid]

ProbabilityDepth(api_data) ==
    [class |-> "ProbabilityDepth", fsid |-> api_data.fsid]

\* the "adaptation" values a summary record can carry: null, or a list of
\* adaptation identifiers (empty, with repeats, in any order)
AdaptationLists ==
    {NoneList} \cup {SomeList(s) : s \in SeqUpTo(1..MaxAdaptId, MaxAdaptLen)}

\* the i-th identifier of a request, null past its end
KeyAt(ids, i) == IF i <= Len(ids) THEN SomeInt(ids[i]) ELSE NoneInt

\* the raw record the backend gives at position i of the response to a
\* request for ids: detail records are keyed by adaptationId, all others by
\* fsid; summary records carry an "adaptation" list
RawAt(ids, product_subtype, i, adaptation) ==
    IF product_subtype = "detail"
    THEN RawRecord(NoneInt, KeyAt(ids, i), NoneList)
    ELSE RawRecord(KeyAt(ids, i), NoneInt, adaptation)

\* the lengths of the responses to a request for k identifiers: one record
\* per identifier, one fewer, or (up to MaxItems) one more
ResponseLengths(k) ==
    {n \in {k - 1, k, k + 1} : n >= 0 /\ (n <= k \/ n <= MaxItems)}

\* every response the backend can give to a request for ids
Responses(ids, product_subtype) ==
    LET payloads == IF product_subtype = "summary" THEN AdaptationLists
                    ELSE {NoneList}
    IN UNION {{[i \in 1..n |-> RawAt(ids, product_subtype, i, p[i])] :
                   p \in [1..n -> payloads]} : n \in ResponseLengths(Len(ids))}

\* the errors call_api raises for a failed request
TransportErrors == {"NetworkError", "UnauthorizedError"}

\* the outcomes of one call_api invocation: an empty identifier list is
\* refused with InvalidArgument before any request; otherwise the request
\* fails with a transport error or yields the flat list of raw records
Outcomes(ids, product_subtype) ==
    IF ids = <<>>
    THEN {[error |-> "InvalidArgument", api_datas |-> <<>>]}
    ELSE {[error |-> e, api_datas |-> <<>>] : e \in TransportErrors}
         \cup {[error |-> "none", api_datas |-> r] :
                   r \in Responses(ids, product_subtype)}

\* one logged call_api invocation, with what it came back with
ApiCall(ids, product, product_subtype, location, lim, outcome) ==
    [search_item |-> ids, product |-> product,
     product_subtype |-> product_subtype, location |-> location,
     limit |-> lim, error |-> outcome.error, api_datas |-> outcome.api_datas]

\* one logged to_csv invocation
CsvCall(data, product, product_subtype, location) ==
    [data |-> data, product |-> product, product_subtype |-> product_subtype,
     location |-> location]

---------------------------------------------------------------------------
(* The state before the call, and how a call ends. *)

Init ==
    /\ pc = "idle"
    /\ method = "none"
    /\ search_item = <<>>
    /\ location_type = NoneValue
    /\ csv = FALSE
    /\ limit = DefaultLimit
    /\ api_calls = <<>>
    /\ csv_calls = <<>>
    /\ raised = "none"
    /\ returned = FALSE
    /\ result = <<>>

\* the entry point m is called with these arguments
Called(m, item, lt, c, lim) ==
    /\ pc = "idle"
    /\ pc' = "done"
    /\ method' = m
    /\ search_item' = item
    /\ location_type' = lt
    /\ csv' = c
    /\ limit' = lim

\* the call ends by raising error, after the call_api invocations calls;
\* nothing is returned and to_csv has not been reached
Raise(error, calls) ==
    /\ raised' = error
    /\ returned' = FALSE
    /\ result' = <<>>
    /\ api_calls' = calls
    /\ csv_calls' = <<>>

\* the call ends by returning value, after the invocations calls and csvs
Return(value, calls, csvs) ==
    /\ raised' = "none"
    /\ returned' = TRUE
    /\ result' = value
    /\ api_calls' = calls
    /\ csv_calls' = csvs

---------------------------------------------------------------------------
(* class Adaptation *)

\* get_detail: the call_api invocation
get_detail_api_calls(item, lim, outcome) ==
    <<ApiCall(item, "adaptation", "detail", NoneValue, lim, outcome)>>

\* get_detail: one AdaptationDetail per raw record, in order
get_detail_product(api_datas) ==
    [i \in 1..Len(api_datas) |-> AdaptationDetail(api_datas[i])]

\* get_detail: the to_csv invocation
get_detail_csv_calls(product, c) ==
    IF c THEN <<CsvCall(product, "adaptation", "detail", NoneValue)>>
    ELSE <<>>

get_detail(item, c, lim) ==
    /\ Called("get_detail", item, NoneValue, c, lim)
    /\ \E outcome \in Outcomes(item, "detail") :
         LET calls == get_detail_api_calls(item, lim, outcome)
             product == get_detail_product(outcome.api_datas)
         IN IF outcome.error # "none"
            THEN Raise(outcome.error, calls)
            ELSE Return(product, calls, get_detail_csv_calls(product, c))

\* get_summary: the error the location_type check raises, "none" if it passes
get_summary_validate(lt) ==
    IF ~Truthy(lt) THEN "InvalidArgument"
    ELSE IF ~IsInstanceStr(lt) THEN "TypeError"
    ELSE "none"

get_summary_api_calls(item, lt, lim, outcome) ==
    <<ApiCall(item, "adaptation", "summary", lt, lim, outcome)>>

get_summary_product(api_datas) ==
    [i \in 1..Len(api_datas) |-> AdaptationSummary(api_datas[i])]

get_summary_csv_calls(product, lt, c) ==
    IF c THEN <<CsvCall(product, "adaptation", "summary", lt)>>
    ELSE <<>>

get_summary(item, lt, c, lim) ==
    /\ Called("get_summary", item, lt, c, lim)
    /\ IF get_summary_validate(lt) # "none"
       THEN Raise(get_summary_validate(lt), <<>>)
       ELSE \E outcome \in Outcomes(item, "summary") :
              LET calls == get_summary_api_calls(item, lt, lim, outcome)
                  product == get_summary_product(outcome.api_datas)
              IN IF outcome.error # "none"
                 THEN Raise(outcome.error, calls)
                 ELSE Return(product, calls,
                             get_summary_csv_calls(product, lt, c))

\* get_details_by_location: the location_type check
get_details_by_location_validate(lt) ==
    IF ~Truthy(lt) THEN "InvalidArgument"
    ELSE IF ~IsInstanceStr(lt) THEN "TypeError"
    ELSE "none"

\* phase one: the summary request
get_details_by_location_summary_calls(item, lt, lim, outcome) ==
    <<ApiCall(item, "adaptation", "summary", lt, lim, outcome)>>

get_details_by_location_summary(api_datas_summary) ==
    [i \in 1..Len(api_datas_summary) |->
        AdaptationSummary(api_datas_summary[i])]

\* the inner list comprehension: the adaptation identifiers of the summary
\* records whose adaptation is neither None nor empty, in summary order
RECURSIVE AdaptationIds(_)
AdaptationIds(summary) ==
    IF Len(summary) = 0 THEN <<>>
    ELSE (IF TruthyList(Head(summary).adaptation)
          THEN Head(summary).adaptation.items ELSE <<>>)
         \o AdaptationIds(Tail(summary))

\* list(set(l)): the elements of l once each, in the iteration order of the
\* set, which the language leaves open: every enumeration is possible
ListOfSet(l) ==
    {s \in [1..Cardinality(Range(l)) -> Range(l)] : Range(s) = Range(l)}


\* fsids built without the set: the comprehension's list as it is
get_details_by_location_fsids_no_set(summary) == {AdaptationIds(summary)}

\* the identifier lists fsids can be bound to
get_details_by_location_fsids(summary) == ListOfSet(AdaptationIds(summary))


\* the detail request issued whatever fsids holds
get_details_by_location_has_fsids_always(fsids) == TRUE

\* "if fsids": whether the detail request is issued
get_details_by_location_has_fsids(fsids) == Len(fsids) > 0

\* phase two: the detail request
get_details_by_location_detail_calls(fsids, lim, outcome) ==
    <<ApiCall(fsids, "adaptation", "detail", NoneValue, lim, outcome)>>

\* the raw records used when there is nothing to request
get_details_by_location_placeholder == <<RawRecord(NoneInt, NoneInt, NoneList)>>


\* get_details_by_location building its detail records last to first
get_details_by_location_detail_reversed(api_datas_detail) ==
    [i \in 1..Len(api_datas_detail) |->
        AdaptationDetail(api_datas_detail[Len(api_datas_detail) + 1 - i])]

get_details_by_location_detail(api_datas_detail) ==
    [i \in 1..Len(api_datas_detail) |->
        AdaptationDetail(api_datas_detail[i])]


\* get_details_by_location exporting the summary and the detail list apart
get_details_by_location_csv_calls_split(summary, detail, lt, c) ==
    IF c THEN <<CsvCall(summary, "adaptation", "summary", lt),
                CsvCall(detail, "adaptation", "detail", lt)>>
    ELSE <<>>

get_details_by_location_csv_calls(summary, detail, lt, c) ==
    IF c THEN <<CsvCall(<<summary, detail>>, "adaptation", "summary_detail", lt)>>
    ELSE <<>>

\* the end of get_details_by_location once api_datas_detail is known
get_details_by_location_finish(summary, api_datas_detail, lt, c, calls) ==
    LET detail == get_details_by_location_detail(api_datas_detail)
    IN Return(<<summary, detail>>, calls,
              get_details_by_location_csv_calls(summary, detail, lt, c))

get_details_by_location(item, lt, c, lim) ==
    /\ Called("get_details_by_location", item, lt, c, lim)
    /\ IF get_details_by_location_validate(lt) # "none"
       THEN Raise(get_details_by_location_validate(lt), <<>>)
       ELSE \E outcome \in Outcomes(item, "summary") :
         LET calls1 == get_details_by_location_summary_calls(item, lt, lim, outcome)
             summary == get_details_by_location_summary(outcome.api_datas)
         IN IF outcome.error # "none"
            THEN Raise(outcome.error, calls1)
            ELSE \E fsids \in get_details_by_location_fsids(summary) :
              IF get_details_by_location_has_fsids(fsids)
              THEN \E outcome2 \in Outcomes(fsids, "detail") :
                LET calls2 == calls1 \o
                      get_details_by_location_detail_calls(fsids, lim, outcome2)
                IN IF outcome2.error # "none"
                   THEN Raise(outcome2.error, calls2)
                   ELSE get_details_by_location_finish(
                            summary, outcome2.api_datas, lt, c, calls2)
              ELSE get_details_by_location_finish(
                       summary, get_details_by_location_placeholder,
                       lt, c, calls1)

---------------------------------------------------------------------------
(* class Probability *)

get_chance_api_calls(fsids, lim, outcome) ==
    <<ApiCall(fsids, "probability", "chance", StrValue("property"), lim, outcome)>>


\* get_chance building its records from the last raw record to the first
get_chance_product_reversed(api_datas) ==
    [i \in 1..Len(api_datas) |->
        ProbabilityChance(api_datas[Len(api_datas) + 1 - i])]

get_chance_product(api_datas) ==
    [i \in 1..Len(api_datas) |-> ProbabilityChance(api_datas[i])]

get_chance_csv_calls(product, c) ==
    IF c THEN <<CsvCall(product, "probability", "chance", NoneValue)>>
    ELSE <<>>

get_chance(fsids, c, lim) ==
    /\ Called("get_chance", fsids, NoneValue, c, lim)
    /\ \E outcome \in Outcomes(fsids, "chance") :
         LET calls == get_chance_api_calls(fsids, lim, outcome)
             product == get_chance_product(outcome.api_datas)
         IN IF outcome.error # "none"
            THEN Raise(outcome.error, calls)
            ELSE Return(product, calls, get_chance_csv_calls(product, c))


\* get_count with the emptiness check left out
get_count_validate_no_empty_check(lt) ==
    IF ~IsInstanceStr(lt) THEN "TypeError"
    ELSE "none"

\* get_count: the location_type check
get_count_validate(lt) ==
    IF ~Truthy(lt) THEN "InvalidArgument"
    ELSE IF ~IsInstanceStr(lt) THEN "TypeError"
    ELSE "none"

get_count_api_calls(fsids, lt, lim, outcome) ==
    <<ApiCall(fsids, "probability", "count", lt, lim, outcome)>>

get_count_product(api_datas) ==
    [i \in 1..Len(api_datas) |-> ProbabilityCount(api_datas[i])]

get_count_csv_calls(product, lt, c) ==
    IF c THEN <<CsvCall(product, "probability", "count", lt)>>
    ELSE <<>>


\* get_count swallowing the error of call_api and going on with the records
\* it has (none)
get_count_partial_result(fsids, lt, c, lim) ==
    /\ Called("get_count", fsids, lt, c, lim)
    /\ IF get_count_validate(lt) # "none"
       THEN Raise(get_count_validate(lt), <<>>)
       ELSE \E outcome \in Outcomes(fsids, "count") :
              LET calls == get_count_api_calls(fsids, lt, lim, outcome)
                  product == get_count_product(outcome.api_datas)
              IN Return(product, calls, get_count_csv_calls(product, lt, c))

get_count(fsids, lt, c, lim) ==
    /\ Called("get_count", fsids, lt, c, lim)
    /\ IF get_count_validate(lt) # "none"
       THEN Raise(get_count_validate(lt), <<>>)
       ELSE \E outcome \in Outcomes(fsids, "count") :
              LET calls == get_count_api_calls(fsids, lt, lim, outcome)
                  product == get_count_product(outcome.api_datas)
              IN IF outcome.error # "none"
                 THEN Raise(outcome.error, calls)
                 ELSE Return(product, calls,
                             get_count_csv_calls(product, lt, c))

get_count_summary_api_calls(fsids, lim, outcome) ==
    <<ApiCall(fsids, "probability", "count-summary", StrValue("property"),
              lim, outcome)>>

get_count_summary_product(api_datas) ==
    [i \in 1..Len(api_datas) |-> ProbabilityCountSummary(api_datas[i])]

get_count_summary_csv_calls(product, c) ==
    IF c THEN <<CsvCall(product, "probability", "count-summary", NoneValue)>>
    ELSE <<>>

get_count_summary(fsids, c, lim) ==
    /\ Called("get_count_summary", fsids, NoneValue, c, lim)
    /\ \E outcome \in Outcomes(fsids, "count-summary") :
         LET calls == get_count_summary_api_calls(fsids, lim, outcome)
             product == get_count_summary_product(outcome.api_datas)
         IN IF outcome.error # "none"
            THEN Raise(outcome.error, calls)
            ELSE Return(product, calls,
                        get_count_summary_csv_calls(product, c))


\* get_cumulative trying a failed request a second time
get_cumulative_api_calls_retry(fsids, lim, outcome) ==
    LET call == ApiCall(fsids, "probability", "cumulative",
                        StrValue("property"), lim, outcome)
    IN IF outcome.error # "none" THEN <<call, call>> ELSE <<call>>

get_cumulative_api_calls(fsids, lim, outcome) ==
    <<ApiCall(fsids, "probability", "cumulative", StrValue("property"),
              lim, outcome)>>

get_cumulative_product(api_datas) ==
    [i \in 1..Len(api_datas) |-> ProbabilityCumulative(api_datas[i])]

get_cumulative_csv_calls(product, c) ==
    IF c THEN <<CsvCall(product, "probability", "cumulative", NoneValue)>>
    ELSE <<>>

get_cumulative(fsids, c, lim) ==
    /\ Called("get_cumulative", fsids, NoneValue, c, lim)
    /\ \E outcome \in Outcomes(fsids, "cumulative") :
         LET calls == get_cumulative_api_calls(fsids, lim, outcome)
             product == get_cumulative_product(outcome.api_datas)
         IN IF outcome.error # "none"
            THEN Raise(outcome.error, calls)
            ELSE Return(product, calls, get_cumulative_csv_calls(product, c))

get_depth_api_calls(fsids, lim, outcome) ==
    <<ApiCall(fsids, "probability", "depth", StrValue("property"), lim, outcome)>>


\* get_depth losing the first raw record
get_depth_product_skip_first(api_datas) ==
    [i \in 1..(Len(api_datas) - 1) |-> ProbabilityDepth(api_datas[i + 1])]

get_depth_product(api_datas) ==
    [i \in 1..Len(api_datas) |-> ProbabilityDepth(api_datas[i])]

get_depth_csv_calls(product, c) ==
    IF c THEN <<CsvCall(product, "probability", "depth", NoneValue)>>
    ELSE <<>>

get_depth(fsids, c, lim) ==
    /\ Called("get_depth", fsids, NoneValue, c, lim)
    /\ \E outcome \in Outcomes(fsids, "depth") :
         LET calls == get_depth_api_calls(fsids, lim, outcome)
             product == get_depth_product(outcome.api_datas)
         IN IF outcome.error # "none"
            THEN Raise(outcome.error, calls)
            ELSE Return(product, calls, get_depth_csv_calls(product, c))

---------------------------------------------------------------------------

(* One top-level call: any entry point, with any arguments. *)

Call_get_detail ==
    /\ pc = "idle"
    /\ \E item \in SearchItems, c \in BOOLEAN, lim \in Limits :
           get_detail(item, c, lim)

Call_get_details_by_location ==
    /\ pc = "idle"
    /\ \E item \in SearchItems, lt \in LocationTypes, c \in BOOLEAN,
          lim \in Limits :
           get_details_by_location(item, lt, c, lim)

Call_get_summary ==
    /\ pc = "idle"
    /\ \E item \in SearchItems, lt \in LocationTypes, c \in BOOLEAN,
          lim \in Limits :
           get_summary(item, lt, c, lim)

Call_get_chance ==
    /\ pc = "idle"
    /\ \E fsids \in SearchItems, c \in BOOLEAN, lim \in Limits :
           get_chance(fsids, c, lim)

Call_get_count ==
    /\ pc = "idle"
    /\ \E fsids \in SearchItems, lt \in LocationTypes, c \in BOOLEAN,
          lim \in Limits :
           get_count(fsids, lt, c, lim)

Call_get_count_summary ==
    /\ pc = "idle"
    /\ \E fsids \in SearchItems, c \in BOOLEAN, lim \in Limits :
           get_count_summary(fsids, c, lim)

Call_get_cumulative ==
    /\ pc = "idle"
    /\ \E fsids \in SearchItems, c \in BOOLEAN, lim \in Limits :
           get_cumulative(fsids, c, lim)

Call_get_depth ==
    /\ pc = "idle"
    /\ \E fsids \in SearchItems, c \in BOOLEAN, lim \in Limits :
           get_depth(fsids, c, lim)

Next ==
    \/ Call_get_detail
    \/ Call_get_details_by_location
    \/ Call_get_summary
    \/ Call_get_chance
    \/ Call_get_count
    \/ Call_get_count_summary
    \/ Call_get_cumulative
    \/ Call_get_depth

Spec == Init /\ [][Next]_vars

---------------------------------------------------------------------------
(* Vocabulary of the properties. *)

\* the entry points that take a location_type
LocationTypeMethods == {"get_summary", "get_details_by_location", "get_count"}

\* the entry points that make one request
SinglePhaseMethods ==
    {"get_detail", "get_summary", "get_chance", "get_count",
     "get_count_summary", "get_cumulative", "get_depth"}

Done == pc = "done"

\* the raw records call_api returned to its n-th invocation
ApiDatas(n) == api_calls[n].api_datas

\* some call_api invocation of the call failed
SomeCallFailed == \E n \in 1..Len(api_calls) : api_calls[n].error # "none"

\* the identifying field of a raw record and of the object built from it
RawKey(raw, product_subtype) ==
    IF product_subtype = "detail" THEN raw.adaptationId ELSE raw.fsid

ProductKey(record) ==
    IF record.class = "AdaptationDetail" THEN record.adaptationId
    ELSE record.fsid

\* records is built from raws position by position
BuiltInOrder(records, raws, product_subtype) ==
    /\ Len(records) = Len(raws)
    /\ \A i \in 1..Len(raws) :
          ProductKey(records[i]) = RawKey(raws[i], product_subtype)

\* the adaptation identifiers carried by a list of raw summary records
CrossReferences(raws) ==
    UNION {Range(raws[i].adaptation.items) : i \in 1..Len(raws)}

\* no raw summary record carries a cross-reference
NoCrossReferences(raws) ==
    \A i \in 1..Len(raws) :
        raws[i].adaptation.isNone \/ raws[i].adaptation.items = <<>>

NoDuplicates(l) == \A i, j \in 1..Len(l) : l[i] = l[j] => i = j

\* l without the later occurrences of its elements
RECURSIVE FirstOccurrences(_)
FirstOccurrences(l) ==
    IF Len(l) = 0 THEN <<>>
    ELSE LET front == FirstOccurrences(SubSeq(l, 1, Len(l) - 1))
         IN IF l[Len(l)] \in Range(front) THEN front
            ELSE Append(front, l[Len(l)])

\* the adaptation lists of raw summary records, concatenated in order
RECURSIVE ConcatAdaptation(_)
ConcatAdaptation(raws) ==
    IF Len(raws) = 0 THEN <<>>
    ELSE raws[1].adaptation.items \o ConcatAdaptation(Tail(raws))

\* get_details_by_location issued its detail request
DetailRequested ==
    Done /\ method = "get_details_by_location" /\ Len(api_calls) = 2

---------------------------------------------------------------------------
(* Properties. *)

\* C1: called with the empty string as location_type, get_summary,
\* get_details_by_location and get_count raise InvalidArgument, and the call
\* has made no call_api invocation and no to_csv invocation.
C1_EmptyLocationTypeRejectedBeforeAnyRequest ==
    (Done /\ method \in LocationTypeMethods /\ location_type = StrValue(""))
        => /\ raised = "InvalidArgument"
           /\ ~returned
           /\ Len(api_calls) = 0
           /\ Len(csv_calls) = 0

\* C1 witness: get_count was called with "" , csv enabled and a non-empty
\* identifier list, and raised InvalidArgument.
C1_Witness ==
    /\ Done /\ method = "get_count" /\ location_type = StrValue("")
    /\ csv /\ Len(search_item) > 0
    /\ raised = "InvalidArgument"

\* C2: called with a location_type that is not a string (any integer, for
\* instance), get_summary, get_details_by_location and get_count raise
\* TypeError, and the call has made no call_api invocation.
C2_NonStringLocationTypeRaisesTypeError ==
    (Done /\ method \in LocationTypeMethods /\ ~IsInstanceStr(location_type))
        => /\ raised = "TypeError"
           /\ Len(api_calls) = 0

\* C3: in get_details_by_location, when the summary request succeeds and no
\* summary record carries a cross-reference (every adaptation field is null
\* or an empty list), the summary request is the only call_api invocation,
\* none is made with an empty identifier list, and the call returns a detail
\* list of exactly one record, built from the placeholder {adaptationId: null}.
C3_NoCrossReferencesGivesPlaceholderDetail ==
    (/\ Done /\ method = "get_details_by_location"
     /\ Len(api_calls) >= 1 /\ api_calls[1].error = "none"
     /\ NoCrossReferences(ApiDatas(1)))
        => /\ Len(api_calls) = 1
           /\ \A n \in 1..Len(api_calls) : Len(api_calls[n].search_item) > 0
           /\ returned
           /\ Len(result[2]) = 1
           /\ result[2][1].class = "AdaptationDetail"
           /\ result[2][1].adaptationId = NoneInt

\* C3 witness: a returned get_details_by_location whose two summary records
\* carry a null and an empty adaptation list.
C3_Witness ==
    /\ Done /\ method = "get_details_by_location" /\ returned
    /\ Len(ApiDatas(1)) = 2
    /\ ApiDatas(1)[1].adaptation = NoneList
    /\ ApiDatas(1)[2].adaptation = SomeList(<<>>)
    /\ Len(result[2]) = 1

\* C4: whenever get_details_by_location issues its detail request, the
\* identifier list of that request has no duplicate and, as a set, is the
\* union of the adaptation lists of all summary records (null and empty lists
\* add nothing); the request is for product "adaptation", subtype "detail",
\* with no location qualifier.
C4_DetailRequestIsDeduplicatedUnion ==
    DetailRequested
        => /\ NoDuplicates(api_calls[2].search_item)
           /\ Range(api_calls[2].search_item) = CrossReferences(ApiDatas(1))
           /\ api_calls[2].product = "adaptation"
           /\ api_calls[2].product_subtype = "detail"
           /\ api_calls[2].location = NoneValue

\* C4 witness: a detail request after two summary records that carry the
\* same identifier.
C4_Witness ==
    /\ DetailRequested
    /\ Len(ApiDatas(1)) = 2
    /\ TruthyList(ApiDatas(1)[1].adaptation)
    /\ ApiDatas(1)[1].adaptation = ApiDatas(1)[2].adaptation

\* C5: when call_api returns one raw record per identifier of a non-empty
\* identifier list, a single-request entry point returns a list of as many
\* records as there are identifiers, and get_details_by_location returns a
\* summary list of that length.
C5_OneRecordPerIdentifier ==
    (/\ Done /\ returned /\ Len(search_item) > 0
     /\ Len(ApiDatas(1)) = Len(search_item))
        => IF method = "get_details_by_location"
           THEN Len(result[1]) = Len(search_item)
           ELSE Len(result) = Len(search_item)

\* C5 witness: get_depth returned two records for two identifiers.
C5_Witness ==
    /\ Done /\ returned /\ method = "get_depth"
    /\ Len(search_item) = 2 /\ Len(ApiDatas(1)) = 2 /\ Len(result) = 2

\* C6: in every entry point the i-th returned record is built from the i-th
\* raw record call_api returned, for every i: the list of a single-request
\* entry point follows its response, and in get_details_by_location the
\* summary list follows the summary response and the detail list follows the
\* detail response.
C6_RecordsFollowRawOrder ==
    (Done /\ returned)
        => IF method = "get_details_by_location"
           THEN /\ BuiltInOrder(result[1], ApiDatas(1), "summary")
                /\ Len(api_calls) = 2
                      => BuiltInOrder(result[2], ApiDatas(2), "detail")
           ELSE BuiltInOrder(result, ApiDatas(1), api_calls[1].product_subtype)

\* C6 witness: get_chance returned two records with different identifiers.
C6_Witness ==
    /\ Done /\ returned /\ method = "get_chance"
    /\ Len(result) = 2 /\ result[1].fsid # result[2].fsid

\* C7: in every entry point, a call that returns with csv enabled has invoked
\* to_csv exactly once, with the full set of records it returns (for
\* get_details_by_location one invocation given the summary and the detail
\* list together); no call invokes to_csv more than once, and a call with csv
\* disabled never invokes it.
C7_CsvExportedOnceWhenEnabled ==
    Done
        => /\ Len(csv_calls) <= 1
           /\ ~csv => Len(csv_calls) = 0
           /\ (csv /\ returned)
                 => /\ Len(csv_calls) = 1
                    /\ csv_calls[1].data = result

\* C7 witness: get_details_by_location returned with csv enabled, a
\* non-empty summary list and one to_csv invocation.
C7_Witness ==
    /\ Done /\ returned /\ csv /\ method = "get_details_by_location"
    /\ Len(result[1]) > 0 /\ Len(csv_calls) = 1

\* C8: when a call_api invocation fails, the entry point raises that same
\* error, returns no record and never invokes to_csv, csv enabled or not; in
\* get_details_by_location this holds also when the detail request fails
\* after the summary request succeeded.
C8_FailureAbortsWithoutPartialResult ==
    (Done /\ SomeCallFailed)
        => /\ raised = api_calls[Len(api_calls)].error
           /\ raised # "none"
           /\ ~returned
           /\ Len(result) = 0
           /\ Len(csv_calls) = 0

\* C8 witness: get_details_by_location, csv enabled, built summary records
\* and then its detail request failed.
C8_Witness ==
    /\ Done /\ method = "get_details_by_location" /\ csv
    /\ Len(api_calls) = 2
    /\ api_calls[1].error = "none" /\ Len(ApiDatas(1)) > 0
    /\ api_calls[2].error = "NetworkError"
    /\ raised = "NetworkError"

\* C9: a single-request entry point invokes call_api at most once, and
\* get_details_by_location at most twice: first the summary request, then at
\* most one detail request, made only after the summary request succeeded;
\* a failed invocation is the last invocation of the call.
C9_NoRetry ==
    Done
        => /\ method \in SinglePhaseMethods => Len(api_calls) <= 1
           /\ Len(api_calls) <= 2
           /\ \A n \in 1..Len(api_calls) :
                 api_calls[n].error # "none" => n = Len(api_calls)
           /\ Len(api_calls) = 2
                 => /\ api_calls[1].product_subtype = "summary"
                    /\ api_calls[1].error = "none"
                    /\ api_calls[2].product_subtype = "detail"

\* C9 witness: get_cumulative raised the error of its one, failed, request.
C9_Witness ==
    /\ Done /\ method = "get_cumulative"
    /\ Len(api_calls) = 1 /\ api_calls[1].error = "UnauthorizedError"
    /\ raised = "UnauthorizedError"

\* C10, as stated: the identifiers of the detail request of
\* get_details_by_location are in the order in which they first occur across
\* the summary records, taken in summary order.
C10_DetailRequestInFirstOccurrenceOrder ==
    DetailRequested
        => api_calls[2].search_item
              = FirstOccurrences(ConcatAdaptation(ApiDatas(1)))

\* C10, amended: the identifiers of the detail request are the identifiers
\* that occur in the summary records, each once, in some order (that of the
\* iteration of a set, not that of first occurrence), and when call_api
\* returns one raw record per identifier of that request, the i-th returned
\* detail record is the record of the i-th identifier of the request.
C10_DetailOrderFollowsRequestOrder ==
    DetailRequested
        => LET fsids == api_calls[2].search_item
               first == FirstOccurrences(ConcatAdaptation(ApiDatas(1)))
           IN /\ Len(fsids) = Len(first)
              /\ Range(fsids) = Range(first)
              /\ (returned /\ Len(ApiDatas(2)) = Len(fsids))
                    => /\ Len(result[2]) = Len(fsids)
                       /\ \A i \in 1..Len(fsids) :
                             result[2][i].adaptationId = SomeInt(fsids[i])

\* C10 witness: a returned get_details_by_location whose detail request
\* lists two identifiers in the reverse of their order of first occurrence.
C10_Witness ==
    /\ DetailRequested /\ returned
    /\ Len(api_calls[2].search_item) = 2
    /\ api_calls[2].search_item
          # FirstOccurrences(ConcatAdaptation(ApiDatas(1)))
    /\ Len(result[2]) = 2

====
